---- MODULE Spec2Model ----
(***************************************************************************)
(* GTM performance auditor: the audit endpoint (app/api/audit/route.ts:    *)
(* extractMetrics, auditURL, POST) and the batch client                    *)
(* (app/layout.tsx: validateUrls, calculateSummary, startAudit,            *)
(* clearResults).                                                          *)
(*                                                                         *)
(* JavaScript strings are sequences of one-character strings, so that the  *)
(* regular expressions of the code are computed and not assumed.           *)
(* Numbers are integers (milliseconds); a field the oracle omitted is the  *)
(* value Undef.                                                            *)
(***************************************************************************)
EXTENDS Integers, Sequences, FiniteSets, TLC

\* ------------------------------------------------------------------------
\* Bounds
\* ------------------------------------------------------------------------

\* longest bootup-time item list of a report drawn in SpecExtract
MaxItems == 3

\* most audit requests issued in one behaviour (over all batches)
MaxRequests == 3

\* most requests of one behaviour that fail on the way (connection lost,
\* answer replaced by a proxy)
MaxFaults == 1

\* ------------------------------------------------------------------------
\* JavaScript values
\* ------------------------------------------------------------------------

\* a numeric field of a raw item: a number, or undefined when omitted
Num(n) == [def |-> TRUE, n |-> n]
Undef == [def |-> FALSE, n |-> 0]

\* a url field of a raw item: a string, or something that is not a string
Str(s) == [isString |-> TRUE, s |-> s]
NotAString == [isString |-> FALSE, s |-> <<>>]

\* x ?? 0
OrZero(x) == IF x.def THEN x.n ELSE 0

\* [A-Z0-9]
IdChars ==
  {"A","B","C","D","E","F","G","H","I","J","K","L","M","N","O","P","Q","R",
   "S","T","U","V","W","X","Y","Z","0","1","2","3","4","5","6","7","8","9"}

\* the literal part of /gtm\.js\?id=(GTM-[A-Z0-9]+)/
GtmLiteral == <<"g","t","m",".","j","s","?","i","d","=","G","T","M","-">>

\* the capture group starts this many characters into the match
GroupOffset == 10

\* the regular expression matches s with the match starting at position p
MatchesAt(s, p) ==
  /\ p + Len(GtmLiteral) <= Len(s)
  /\ SubSeq(s, p, p + Len(GtmLiteral) - 1) = GtmLiteral
  /\ s[p + Len(GtmLiteral)] \in IdChars

\* item.url.match(gtmRegex) is not null
gtmRegexTest(s) == \E p \in 1..Len(s) : MatchesAt(s, p)

\* match[0] in the place of match[1]: the whole match
gtmRegexGroup_whole(s) ==
  LET p == CHOOSE q \in 1..Len(s) :
             MatchesAt(s, q) /\ \A r \in 1..(q - 1) : ~MatchesAt(s, r)
      first == p + Len(GtmLiteral)
      last == CHOOSE e \in first..Len(s) :
                /\ \A k \in first..e : s[k] \in IdChars
                /\ (e = Len(s) \/ s[e + 1] \notin IdChars)
  IN SubSeq(s, p, last)

\* gtmRegexGroup with a lazy quantifier: the group ends after one character
gtmRegexGroup_lazy(s) ==
  LET p == CHOOSE q \in 1..Len(s) :
             MatchesAt(s, q) /\ \A r \in 1..(q - 1) : ~MatchesAt(s, r)
  IN SubSeq(s, p + GroupOffset, p + Len(GtmLiteral))

\* match[1]: the group of the leftmost match, [A-Z0-9]+ taken greedily
gtmRegexGroup(s) ==
  LET p == CHOOSE q \in 1..Len(s) :
             MatchesAt(s, q) /\ \A r \in 1..(q - 1) : ~MatchesAt(s, r)
      first == p + Len(GtmLiteral)
      last == CHOOSE e \in first..Len(s) :
                /\ \A k \in first..e : s[k] \in IdChars
                /\ (e = Len(s) \/ s[e + 1] \notin IdChars)
  IN SubSeq(s, p + GroupOffset, last)

\* ------------------------------------------------------------------------
\* extractMetrics
\* ------------------------------------------------------------------------

NoContainerMsg == "No Google Tag Manager container scripts (gtm.js) found on this page by Lighthouse."

\* lhr.audits['bootup-time']?.details?.items ?? []
bootupItems(lhr) == IF lhr.hasBootup THEN lhr.items ELSE <<>>

\* the body of the loop with scripting and scriptParseCompile exchanged
extractItem_swapped(item) ==
  IF ~item.url.isString THEN <<>>
  ELSE IF ~gtmRegexTest(item.url.s) THEN <<>>
  ELSE << [containerId |-> gtmRegexGroup(item.url.s),
           totalCpuTime |-> OrZero(item.total),
           scriptEvaluation |-> OrZero(item.scriptParseCompile),
           scriptParseTime |-> OrZero(item.scripting)] >>

\* the body of the for loop for one item: the metrics pushed (none or one)
extractItem(item) ==
  IF ~item.url.isString THEN <<>>
  ELSE IF ~gtmRegexTest(item.url.s) THEN <<>>
  ELSE << [containerId |-> gtmRegexGroup(item.url.s),
           totalCpuTime |-> OrZero(item.total),
           scriptEvaluation |-> OrZero(item.scripting),
           scriptParseTime |-> OrZero(item.scriptParseCompile)] >>

RECURSIVE extractLoop(_)
extractLoop(items) ==
  IF items = <<>> THEN <<>>
  ELSE extractItem(Head(items)) \o extractLoop(Tail(items))

\* extractMetrics without the length check: an empty list is returned
extractMetrics_silent(lhr) ==
  [threw |-> FALSE, error |-> "", gtmMetrics |-> extractLoop(bootupItems(lhr))]

\* extractMetrics(lhr): either throws the no-container error or returns
\* { gtmMetrics }
extractMetrics(lhr) ==
  LET gtmMetrics == extractLoop(bootupItems(lhr))
  IN IF Len(gtmMetrics) = 0
     THEN [threw |-> TRUE, error |-> NoContainerMsg, gtmMetrics |-> <<>>]
     ELSE [threw |-> FALSE, error |-> "", gtmMetrics |-> gtmMetrics]

\* ------------------------------------------------------------------------
\* auditURL: aggregation and averaging
\* ------------------------------------------------------------------------

numberOfRuns == 3

RECURSIVE SumSeq(_)
SumSeq(arr) == IF arr = <<>> THEN 0 ELSE Head(arr) + SumSeq(Tail(arr))

\* the first metric of every container id of a run, the later ones dropped
RECURSIVE firstPerId(_, _)
firstPerId(run, seen) ==
  IF run = <<>> THEN <<>>
  ELSE IF Head(run).containerId \in seen THEN firstPerId(Tail(run), seen)
       ELSE <<Head(run)>>
              \o firstPerId(Tail(run), seen \cup {Head(run).containerId})

\* the two loops with one sample per container id and run
RECURSIVE flattenRuns_dedup(_)
flattenRuns_dedup(runs) ==
  IF runs = <<>> THEN <<>>
  ELSE firstPerId(Head(runs), {}) \o flattenRuns_dedup(Tail(runs))

\* for (const run of runs) for (const metric of run): the metrics in the
\* order the two loops visit them
RECURSIVE flattenRuns(_)
flattenRuns(runs) ==
  IF runs = <<>> THEN <<>> ELSE Head(runs) \o flattenRuns(Tail(runs))

\* a key for every metric instead of one for every container id
aggregatedKeys_all(metrics, seen) ==
  [k \in 1..Len(metrics) |-> metrics[k].containerId]

\* the keys of the Map `aggregated`, in insertion order
RECURSIVE aggregatedKeys(_, _)
aggregatedKeys(metrics, seen) ==
  IF metrics = <<>> THEN <<>>
  ELSE IF Head(metrics).containerId \in seen
       THEN aggregatedKeys(Tail(metrics), seen)
       ELSE <<Head(metrics).containerId>>
              \o aggregatedKeys(Tail(metrics),
                                seen \cup {Head(metrics).containerId})

\* the entry of the Map for one container id: the three pushed arrays
RECURSIVE aggregatedEntry(_, _)
aggregatedEntry(metrics, id) ==
  IF metrics = <<>> THEN [total |-> <<>>, eval |-> <<>>, parse |-> <<>>]
  ELSE LET rest == aggregatedEntry(Tail(metrics), id)
           m == Head(metrics)
       IN IF m.containerId = id
          THEN [total |-> <<m.totalCpuTime>> \o rest.total,
                eval |-> <<m.scriptEvaluation>> \o rest.eval,
                parse |-> <<m.scriptParseTime>> \o rest.parse]
          ELSE rest

\* mean dividing by the run count instead of the number of samples
mean_fixed(arr) == [num |-> SumSeq(arr), den |-> numberOfRuns]

\* arr.reduce((sum, v) => sum + v, 0) / (arr.length || 1), as a fraction
mean(arr) ==
  [num |-> SumSeq(arr), den |-> IF Len(arr) = 0 THEN 1 ELSE Len(arr)]

\* Math.floor in the place of Math.round
MathRound_floor(q) == q.num \div q.den

\* Math.round of a fraction: floor(x + 1/2)
MathRound(q) == (2 * q.num + q.den) \div (2 * q.den)

\* aggregated.forEach(...): one averaged metric per key
averagedOf(runs) ==
  LET metrics == flattenRuns(runs)
      keys == aggregatedKeys(metrics, {})
  IN [k \in 1..Len(keys) |->
        LET data == aggregatedEntry(metrics, keys[k])
        IN [containerId |-> keys[k],
            totalCpuTime |-> MathRound(mean(data.total)),
            scriptEvaluation |-> MathRound(mean(data.eval)),
            scriptParseTime |-> MathRound(mean(data.parse))]]

\* Lighthouse reports timings as floating point milliseconds. Where the
\* fractional part matters a timing is a fraction [num, den] and the
\* arithmetic of mean is done on fractions.
AddQ(a, b) == [num |-> a.num * b.den + b.num * a.den, den |-> a.den * b.den]

RECURSIVE SumQ(_)
SumQ(arr) ==
  IF arr = <<>> THEN [num |-> 0, den |-> 1] ELSE AddQ(Head(arr), SumQ(Tail(arr)))

\* every sample rounded before it is added
meanQ_roundedSamples(arr) ==
  [num |-> SumSeq([k \in 1..Len(arr) |-> MathRound(arr[k])]),
   den |-> IF Len(arr) = 0 THEN 1 ELSE Len(arr)]

\* arr.reduce((sum, v) => sum + v, 0) / (arr.length || 1) on fractions
meanQ(arr) ==
  LET sum == SumQ(arr)
  IN [num |-> sum.num, den |-> sum.den * (IF Len(arr) = 0 THEN 1 ELSE Len(arr))]

\* aggregated.forEach(...) for fractional timings
averagedOfQ(runs) ==
  LET metrics == flattenRuns(runs)
      keys == aggregatedKeys(metrics, {})
  IN [k \in 1..Len(keys) |->
        LET data == aggregatedEntry(metrics, keys[k])
        IN [containerId |-> keys[k],
            totalCpuTime |-> MathRound(meanQ(data.total)),
            scriptEvaluation |-> MathRound(meanQ(data.eval)),
            scriptParseTime |-> MathRound(meanQ(data.parse))]]

\* ------------------------------------------------------------------------
\* new URL(url)
\* ------------------------------------------------------------------------

Lower ==
  {"a","b","c","d","e","f","g","h","i","j","k","l","m","n","o","p","q","r",
   "s","t","u","v","w","x","y","z"}
Upper ==
  {"A","B","C","D","E","F","G","H","I","J","K","L","M","N","O","P","Q","R",
   "S","T","U","V","W","X","Y","Z"}
Digits == {"0","1","2","3","4","5","6","7","8","9"}

\* the schemes whose URLs need a host
HostSchemes ==
  { <<"h","t","t","p">>, <<"h","t","t","p","s">>, <<"f","t","p">>,
    <<"w","s">>, <<"w","s","s">> }

\* ASCII lower-casing of one character (the scheme is compared lower-cased)
ToLower(c) ==
  IF c \in Upper
  THEN CHOOSE l \in Lower :
         \E k \in 1..26 :
           /\ <<"a","b","c","d","e","f","g","h","i","j","k","l","m","n","o",
                "p","q","r","s","t","u","v","w","x","y","z">>[k] = l
           /\ <<"A","B","C","D","E","F","G","H","I","J","K","L","M","N","O",
                "P","Q","R","S","T","U","V","W","X","Y","Z">>[k] = c
  ELSE c

\* position of the colon that ends a well-formed scheme, 0 if there is none
SchemeEnd(s) ==
  IF \E k \in 2..Len(s) :
       /\ s[k] = ":"
       /\ s[1] \in Lower \cup Upper
       /\ \A j \in 2..(k - 1) : s[j] \in Lower \cup Upper \cup Digits \cup {"+", "-", "."}
  THEN CHOOSE k \in 2..Len(s) :
         /\ s[k] = ":"
         /\ \A j \in 2..(k - 1) : s[j] # ":"
  ELSE 0

\* the characters after the scheme's colon with the leading slashes skipped
RECURSIVE SkipSlashes(_)
SkipSlashes(s) ==
  IF s # <<>> /\ Head(s) \in {"/", "\\"} THEN SkipSlashes(Tail(s)) ELSE s

\* the authority: everything up to the first / \ ? #
RECURSIVE TakeAuthority(_)
TakeAuthority(s) ==
  IF s = <<>> \/ Head(s) \in {"/", "\\", "?", "#"} THEN <<>>
  ELSE <<Head(s)>> \o TakeAuthority(Tail(s))

\* a host, optionally followed by :port
ValidAuthority(a) ==
  LET colon == IF \E k \in 1..Len(a) : a[k] = ":"
               THEN CHOOSE k \in 1..Len(a) :
                      a[k] = ":" /\ \A j \in 1..(k - 1) : a[j] # ":"
               ELSE Len(a) + 1
      host == SubSeq(a, 1, colon - 1)
      port == SubSeq(a, colon + 1, Len(a))
  IN /\ host # <<>>
     /\ \A k \in 1..Len(host) :
          host[k] \in Lower \cup Upper \cup Digits \cup {".", "-", "_"}
     /\ \A k \in 1..Len(port) : port[k] \in Digits

\* new URL(url) throws (no base URL is given)
newURLThrows(s) ==
  LET e == SchemeEnd(s)
  IN IF e = 0 THEN TRUE
     ELSE LET scheme == [k \in 1..(e - 1) |-> ToLower(s[k])]
              rest == SubSeq(s, e + 1, Len(s))
          IN IF scheme \in HostSchemes
             THEN ~ValidAuthority(TakeAuthority(SkipSlashes(rest)))
             ELSE FALSE

\* ------------------------------------------------------------------------
\* State
\* ------------------------------------------------------------------------

VARIABLES
  lhrIn,        \* a raw Lighthouse result handed to extractMetrics
  extracted,    \* what extractMetrics did with lhrIn
  badge,        \* a metric value, its kind and what getPerformanceStatus
                \* made of them
  rawRuns,      \* the raw reports of the rounds of one audit, their timings
                \* fractions of a millisecond
  csv,          \* the lines of the file written by exportToCSV
  handlers,     \* the POST handler invocations of the server, by request
  requests,     \* the urls of the fetch('/api/audit') calls issued so far
  faults,       \* how many of them failed on the way
  urls, isAuditing, progress, currentUrl, currentIndex, totalUrls,
  estimatedTimeRemaining, results, summary, error,   \* the React state
  run           \* the locals of the startAudit invocation in progress

serverVars == <<handlers>>
harnessVars == <<lhrIn, extracted, badge, rawRuns, csv>>
reactVars == <<urls, isAuditing, progress, currentUrl, currentIndex,
               totalUrls, estimatedTimeRemaining, results, summary, error>>
clientVars == <<requests, faults, urls, isAuditing, progress, currentUrl,
                currentIndex, totalUrls, estimatedTimeRemaining, results,
                summary, error, run>>
vars == <<lhrIn, extracted, badge, rawRuns, csv, handlers, requests, faults, urls, isAuditing, progress,
          currentUrl, currentIndex, totalUrls, estimatedTimeRemaining,
          results, summary, error, run>>

HandlerIds == 1..MaxRequests

\* error?: string of an AuditResult, and a pending exception
NoErr == [set |-> FALSE, msg |-> ""]
Err(m) == [set |-> TRUE, msg |-> m]

NoResp == [status |-> 0,
           body |-> [url |-> <<>>, status |-> "absent", error |-> NoErr,
                     gtmMetrics |-> <<>>]]

\* summary === null
NoSummary ==
  [isNull |-> TRUE, totalUrls |-> 0, successfulAudits |-> 0,
   totalContainers |-> 0, averageCpuTime |-> 0, averageScriptEval |-> 0,
   averageParseTime |-> 0]

\* no startAudit invocation is in progress. base is the number of requests
\* issued before the invocation and settled records, for every finished
\* iteration, how its fetch ended
RunIdle ==
  [pc |-> "idle", validUrls |-> <<>>, newResults |-> <<>>, i |-> 0, h |-> 0,
   elapsedMs |-> 0, base |-> 0, settled |-> <<>>]

\* a handler that has not been invoked
HandlerIdle ==
  [pc |-> "idle", url |-> NotAString, closed |-> FALSE, launches |-> 0,
   kills |-> 0, alive |-> FALSE, i |-> 0, runs |-> <<>>, err |-> NoErr,
   resp |-> NoResp]

\* a request with body { url } on its way to the handler
HandlerSent(url) == [HandlerIdle EXCEPT !.pc = "sent", !.url = url]

\* ------------------------------------------------------------------------
\* POST and auditURL
\* ------------------------------------------------------------------------

RequiredMsg == "URL is required and must be a string"
InvalidFormatMsg == "Invalid URL format"

\* a handler invocation that is over: its response was read by the client
\* or written to a connection the client had left
HandlerDone(hr) ==
  [HandlerIdle EXCEPT !.pc = "done", !.url = hr.url, !.closed = hr.closed,
                      !.launches = hr.launches, !.kills = hr.kills]

\* return NextResponse.json(body, { status })
Respond(hr, status, body) ==
  IF hr.closed THEN HandlerDone(hr)
  ELSE [hr EXCEPT !.pc = "responded",
                  !.resp = [status |-> status, body |-> body]]

\* the connection of the request is gone: a request or a response still on
\* its way is lost with it, a handler at work goes on without a client
Abandon(hr) ==
  IF hr.pc \in {"sent", "responded"}
  THEN HandlerDone([hr EXCEPT !.closed = TRUE])
  ELSE [hr EXCEPT !.closed = TRUE]

\* the catch block of POST
postCatch(hr, message) ==
  Respond(hr, 500,
          [url |-> hr.url.s, status |-> "error", error |-> Err(message),
           gtmMetrics |-> <<>>])

\* chrome.kill() after the loop instead of in a finally block: an exception
\* leaves the function without the call
finallyKill_afterLoop(hr) ==
  IF hr.err.set THEN [hr EXCEPT !.pc = "killing"]
  ELSE [hr EXCEPT !.kills = @ + 1, !.pc = "killing"]

\* the finally block of auditURL: chrome.kill() is called
finallyKill(hr) == [hr EXCEPT !.kills = @ + 1, !.pc = "killing"]

\* POST up to the first await of auditURL: the body is read, the url is
\* validated and the two dynamic imports are started
Receive(h) ==
  LET hr == handlers[h]
      url == hr.url
  IN /\ hr.pc = "sent"
     /\ UNCHANGED <<harnessVars, clientVars>>
     /\ handlers' = [handlers EXCEPT ![h] =
          IF ~url.isString \/ url.s = <<>>
          THEN Respond(hr, 400,
                       [url |-> <<>>, status |-> "absent",
                        error |-> Err(RequiredMsg), gtmMetrics |-> <<>>])
          ELSE IF newURLThrows(url.s)
          THEN Respond(hr, 400,
                       [url |-> url.s, status |-> "error",
                        error |-> Err(InvalidFormatMsg), gtmMetrics |-> <<>>])
          ELSE [hr EXCEPT !.pc = "importing"]]

\* the imports settle: launch() is called, or the rejection reaches POST
ImportSettled(h, errs) ==
  LET hr == handlers[h]
  IN /\ hr.pc = "importing"
     /\ UNCHANGED <<harnessVars, clientVars>>
     /\ \/ handlers' = [handlers EXCEPT ![h] = [hr EXCEPT !.pc = "launching"]]
        \/ \E m \in errs : handlers' = [handlers EXCEPT ![h] = postCatch(hr, m)]

\* launch() settles: Chrome runs and the DevTools endpoint is probed, or the
\* rejection reaches POST
LaunchSettled(h, errs) ==
  LET hr == handlers[h]
  IN /\ hr.pc = "launching"
     /\ UNCHANGED <<harnessVars, clientVars>>
     /\ \/ handlers' = [handlers EXCEPT ![h] =
             [hr EXCEPT !.pc = "probing", !.alive = TRUE, !.launches = @ + 1]]
        \/ \E m \in errs : handlers' = [handlers EXCEPT ![h] = postCatch(hr, m)]

\* the probe of /json/version settles (a failure is only logged): the try
\* block is entered and the first lighthouse run is started
ProbeSettled(h) ==
  LET hr == handlers[h]
  IN /\ hr.pc = "probing"
     /\ UNCHANGED <<harnessVars, clientVars>>
     /\ handlers' = [handlers EXCEPT ![h] = [hr EXCEPT !.pc = "running"]]

\* a failed round that is skipped: the loop goes on to the next round and
\* the error is forgotten
roundThrows_skip(hr, message) ==
  IF hr.i + 1 < numberOfRuns THEN [hr EXCEPT !.i = @ + 1]
  ELSE finallyKill([hr EXCEPT !.i = @ + 1])

\* a failed round that is remembered while the remaining rounds are run
roundThrows_continue(hr, message) ==
  IF hr.i + 1 < numberOfRuns
  THEN [hr EXCEPT !.err = Err(message), !.i = @ + 1]
  ELSE finallyKill([hr EXCEPT !.err = Err(message), !.i = @ + 1])

\* lighthouse() rejects or extractMetrics throws inside the try block: nothing
\* catches it in auditURL, the loop is left and the finally block runs
roundThrows(hr, message) == finallyKill([hr EXCEPT !.err = Err(message)])

\* a Chrome of its own for every round: the session is given up and another
\* one is launched before the next round
loopNext_relaunch(pushed) ==
  IF pushed.i < numberOfRuns
  THEN [pushed EXCEPT !.launches = @ + 1, !.kills = @ + 1]
  ELSE finallyKill(pushed)

\* i++ and the test i < numberOfRuns after a round that was pushed: the next
\* lighthouse run is started on the same Chrome, or the loop is over
loopNext(pushed) ==
  IF pushed.i < numberOfRuns THEN pushed ELSE finallyKill(pushed)

\* one lighthouse run settles: its metrics are pushed and the next run is
\* started, or the loop ends (normally or by an exception) and the finally
\* block calls chrome.kill()
RoundSettled(h, reports, errs) ==
  LET hr == handlers[h]
  IN /\ hr.pc = "running"
     /\ UNCHANGED <<harnessVars, clientVars>>
     /\ \/ \E m \in errs :
             handlers' = [handlers EXCEPT ![h] = roundThrows(hr, m)]
        \/ \E lhr \in reports :
             LET ex == extractMetrics(lhr)
                 pushed == [hr EXCEPT !.runs = Append(@, ex.gtmMetrics),
                                      !.i = @ + 1]
             IN handlers' = [handlers EXCEPT ![h] =
                  IF ex.threw THEN roundThrows(hr, ex.error)
                  ELSE loopNext(pushed)]

\* chrome.kill() settles: a pending exception goes on to the catch block of
\* POST, otherwise the runs are averaged and POST answers with the result
KillSettled(h) ==
  LET hr == handlers[h]
      dead == [hr EXCEPT !.alive = FALSE]
  IN /\ hr.pc = "killing"
     /\ UNCHANGED <<harnessVars, clientVars>>
     /\ handlers' = [handlers EXCEPT ![h] =
          IF hr.err.set THEN postCatch(dead, hr.err.msg)
          ELSE Respond(dead, 200,
                       [url |-> hr.url.s, status |-> "success",
                        error |-> NoErr, gtmMetrics |-> averagedOf(hr.runs)])]

\* ------------------------------------------------------------------------
\* The batch client: text of the textarea, validateUrls, calculateSummary
\* ------------------------------------------------------------------------

WhiteSpace == {" ", "\t", "\n", "\r"}
LineTerminators == {"\n", "\r"}

\* s.trim()
RECURSIVE trimStart(_)
trimStart(s) ==
  IF s # <<>> /\ Head(s) \in WhiteSpace THEN trimStart(Tail(s)) ELSE s

RECURSIVE trimEnd(_)
trimEnd(s) ==
  IF s # <<>> /\ s[Len(s)] \in WhiteSpace
  THEN trimEnd(SubSeq(s, 1, Len(s) - 1)) ELSE s

trim(s) == trimEnd(trimStart(s))

\* s.split('\n')
RECURSIVE split(_)
split(s) ==
  IF \E k \in 1..Len(s) : s[k] = "\n"
  THEN LET k == CHOOSE j \in 1..Len(s) :
                  s[j] = "\n" /\ \A m \in 1..(j - 1) : s[m] # "\n"
       IN <<SubSeq(s, 1, k - 1)>> \o split(SubSeq(s, k + 1, Len(s)))
  ELSE <<s>>

\* urls.split('\n').map((u) => u.trim()).filter(Boolean)
urlListOf(text) ==
  LET lines == split(text)
      trimmed == [k \in 1..Len(lines) |-> trim(lines[k])]
  IN SelectSeq(trimmed, LAMBDA l : l # <<>>)

\* /^https?:\/\/.+/.test(s)
urlRegexTest(s) ==
  \E p \in {<<"h","t","t","p",":","/","/">>, <<"h","t","t","p","s",":","/","/">>} :
    /\ Len(s) > Len(p)
    /\ SubSeq(s, 1, Len(p)) = p
    /\ s[Len(p) + 1] \notin LineTerminators

\* validateUrls without the filter: every line goes on
validateUrls_all(urlList) == urlList

validateUrls(urlList) ==
  SelectSeq(urlList, LAMBDA url : trim(url) # <<>> /\ urlRegexTest(trim(url)))

\* the thresholds of getPerformanceStatus
thresholds ==
  [cpu |-> [warning |-> 500, critical |-> 1000],
   script |-> [warning |-> 200, critical |-> 500]]

\* the comparisons strict: a value on a threshold falls in the worse class
getPerformanceStatus_strict(value, type) ==
  LET threshold == thresholds[type]
  IN IF value < threshold.warning THEN "good"
     ELSE IF value < threshold.critical THEN "warning"
     ELSE "critical"

getPerformanceStatus(value, type) ==
  LET threshold == thresholds[type]
  IN IF value <= threshold.warning THEN "good"
     ELSE IF value <= threshold.critical THEN "warning"
     ELSE "critical"

RECURSIVE flatMapMetrics(_)
flatMapMetrics(rs) ==
  IF rs = <<>> THEN <<>>
  ELSE Head(rs).gtmMetrics \o flatMapMetrics(Tail(rs))

\* the mean of calculateSummary: Math.round(sum / arr.length)
summaryMean(arr) == MathRound([num |-> SumSeq(arr), den |-> Len(arr)])

\* the rounded mean of one field over the containers of each result that has
\* containers
RECURSIVE perUrlMeans(_, _)
perUrlMeans(rs, field) ==
  IF rs = <<>> THEN <<>>
  ELSE LET ms == Head(rs).gtmMetrics
       IN (IF ms = <<>> THEN <<>>
           ELSE <<summaryMean([k \in 1..Len(ms) |-> ms[k][field]])>>)
          \o perUrlMeans(Tail(rs), field)

\* calculateSummary without the early return for zero containers:
\* Math.round(0 / 0) is NaN, written -1
calculateSummary_noGuard(rs) ==
  LET successfulResults == SelectSeq(rs, LAMBDA r : r.status = "success")
      allGtmMetrics == flatMapMetrics(successfulResults)
      totalContainers == Len(allGtmMetrics)
      avg(arr) == IF arr = <<>> THEN -1 ELSE summaryMean(arr)
  IN [isNull |-> FALSE, totalUrls |-> Len(rs),
      successfulAudits |-> Len(successfulResults),
      totalContainers |-> totalContainers,
      averageCpuTime |->
        avg([k \in 1..totalContainers |-> allGtmMetrics[k].totalCpuTime]),
      averageScriptEval |->
        avg([k \in 1..totalContainers |-> allGtmMetrics[k].scriptEvaluation]),
      averageParseTime |->
        avg([k \in 1..totalContainers |-> allGtmMetrics[k].scriptParseTime])]

\* calculateSummary averaging the means of the single results
calculateSummary_perUrl(rs) ==
  LET successfulResults == SelectSeq(rs, LAMBDA r : r.status = "success")
      totalContainers == Len(flatMapMetrics(successfulResults))
      avg(field) ==
        IF totalContainers = 0 THEN 0
        ELSE summaryMean(perUrlMeans(successfulResults, field))
  IN [isNull |-> FALSE, totalUrls |-> Len(rs),
      successfulAudits |-> Len(successfulResults),
      totalContainers |-> totalContainers,
      averageCpuTime |-> avg("totalCpuTime"),
      averageScriptEval |-> avg("scriptEvaluation"),
      averageParseTime |-> avg("scriptParseTime")]

\* calculateSummary without the filter on the status
calculateSummary_unfiltered(rs) ==
  LET allGtmMetrics == flatMapMetrics(rs)
      totalContainers == Len(allGtmMetrics)
      avg(arr) == IF arr = <<>> THEN 0 ELSE summaryMean(arr)
  IN [isNull |-> FALSE, totalUrls |-> Len(rs),
      successfulAudits |-> Len(rs),
      totalContainers |-> totalContainers,
      averageCpuTime |->
        avg([k \in 1..totalContainers |-> allGtmMetrics[k].totalCpuTime]),
      averageScriptEval |->
        avg([k \in 1..totalContainers |-> allGtmMetrics[k].scriptEvaluation]),
      averageParseTime |->
        avg([k \in 1..totalContainers |-> allGtmMetrics[k].scriptParseTime])]

calculateSummary(rs) ==
  LET successfulResults == SelectSeq(rs, LAMBDA r : r.status = "success")
      allGtmMetrics == flatMapMetrics(successfulResults)
      totalContainers == Len(allGtmMetrics)
  IN IF totalContainers = 0
     THEN [isNull |-> FALSE, totalUrls |-> Len(rs),
           successfulAudits |-> Len(successfulResults), totalContainers |-> 0,
           averageCpuTime |-> 0, averageScriptEval |-> 0,
           averageParseTime |-> 0]
     ELSE [isNull |-> FALSE, totalUrls |-> Len(rs),
           successfulAudits |-> Len(successfulResults),
           totalContainers |-> totalContainers,
           averageCpuTime |->
             summaryMean([k \in 1..totalContainers |-> allGtmMetrics[k].totalCpuTime]),
           averageScriptEval |->
             summaryMean([k \in 1..totalContainers |-> allGtmMetrics[k].scriptEvaluation]),
           averageParseTime |->
             summaryMean([k \in 1..totalContainers |-> allGtmMetrics[k].scriptParseTime])]

\* ------------------------------------------------------------------------
\* exportToCSV
\* ------------------------------------------------------------------------

CsvHeaders ==
  <<"URL", "Container ID", "Total CPU Time (ms)", "Script Evaluation (ms)",
    "Script Parse Time (ms)", "Status", "Error">>

\* `"${text}"`: the text between double quotes, nothing in it escaped
Quoted(text) == [quoted |-> TRUE, text |-> text]
\* the cell '-'
Dash == [isNumber |-> FALSE, n |-> 0]
\* a number as a cell
NumberCell(n) == [isNumber |-> TRUE, n |-> n]

\* result.error || ''
errorOrEmpty(r) == IF r.error.set THEN r.error.msg ELSE ""

\* the rows of one result; a line is kept as the list of its cells, which
\* join(',') puts together
rowsOf(r) ==
  IF r.status = "error" \/ Len(r.gtmMetrics) = 0
  THEN << [url |-> Quoted(r.url), containerId |-> <<"-">>,
           totalCpuTime |-> Dash, scriptEvaluation |-> Dash,
           scriptParseTime |-> Dash, status |-> r.status,
           error |-> Quoted(errorOrEmpty(r))] >>
  ELSE [k \in 1..Len(r.gtmMetrics) |->
          [url |-> Quoted(r.url),
           containerId |-> r.gtmMetrics[k].containerId,
           totalCpuTime |-> NumberCell(r.gtmMetrics[k].totalCpuTime),
           scriptEvaluation |-> NumberCell(r.gtmMetrics[k].scriptEvaluation),
           scriptParseTime |-> NumberCell(r.gtmMetrics[k].scriptParseTime),
           status |-> r.status, error |-> Quoted("")]]

\* the rows with the failed results left out
RECURSIVE csvRows_successesOnly(_)
csvRows_successesOnly(rs) ==
  IF rs = <<>> THEN <<>>
  ELSE (IF Head(rs).status = "error" THEN <<>> ELSE rowsOf(Head(rs)))
       \o csvRows_successesOnly(Tail(rs))

\* results.flatMap(...)
RECURSIVE csvRows(_)
csvRows(rs) ==
  IF rs = <<>> THEN <<>> ELSE rowsOf(Head(rs)) \o csvRows(Tail(rs))

\* ------------------------------------------------------------------------
\* startAudit
\* ------------------------------------------------------------------------

NoValidUrlMsg == "Please enter at least one valid URL (must start with http:// or https://)"
RemovedMsg == "invalid URLs were removed. Only valid URLs starting with http:// or https:// will be audited."

\* response.ok
responseOk(status) == status \in 200..299

\* `HTTP ${response.status}`
HttpMsg(status) ==
  CASE status = 400 -> "HTTP 400"
    [] status = 500 -> "HTTP 500"
    [] OTHER -> "HTTP"

\* result.error without the fallback to the status
errorOrHttp_raw(resp) == resp.body.error.msg

\* result.error || `HTTP ${response.status}`
errorOrHttp(resp) ==
  IF resp.body.error.set /\ resp.body.error.msg # ""
  THEN resp.body.error.msg ELSE HttpMsg(resp.status)

\* the catch block without the push: the failure is dropped
catchPush_drop(newResults, url, message) == newResults

\* the catch block with unshift in the place of push
catchPush_unshift(newResults, url, message) ==
  << [url |-> url, gtmMetrics |-> <<>>, status |-> "error",
      error |-> Err(message)] >> \o newResults

\* the catch block of the loop body
catchPush(newResults, url, message) ==
  Append(newResults,
         [url |-> url, gtmMetrics |-> <<>>, status |-> "error",
          error |-> Err(message)])

\* the try block once fetch and response.json() have resolved
tryPush(newResults, url, resp) ==
  IF ~responseOk(resp.status)
  THEN catchPush(newResults, url, errorOrHttp(resp))
  ELSE Append(newResults, resp.body)

\* Math.max(0, Math.round((validUrls.length - i - 1) * avgPerUrl)) with
\* avgPerUrl = elapsed / (i + 1) and elapsed = elapsedMs / 1000
etaAt(n, i, elapsedMs) ==
  LET r == MathRound([num |-> (n - i - 1) * elapsedMs, den |-> 1000 * (i + 1)])
  IN IF r > 0 THEN r ELSE 0

\* a failed url is tried once more before the loop goes on
iterationEnd_retry(r) ==
  LET n == Len(r.newResults)
  IN IF /\ r.newResults[n].status = "error"
        /\ (n < 2 \/ r.newResults[n - 1].url # r.newResults[n].url)
     THEN r
     ELSE [r EXCEPT !.i = @ + 1]

\* the loop left at the first failed url
iterationEnd_break(r) ==
  IF r.newResults[Len(r.newResults)].status = "error"
  THEN [r EXCEPT !.i = Len(r.validUrls)]
  ELSE [r EXCEPT !.i = @ + 1]

\* the end of one iteration: i++
iterationEnd(r) == [r EXCEPT !.i = @ + 1]

\* the head of the loop body for index r.i (0-based), up to the await of
\* fetch: the request leaves for the server
IterationStart(r, elapsedMs) ==
  LET url == r.validUrls[r.i + 1]
      h == Len(requests) + 1
  IN /\ currentUrl' = url
     /\ currentIndex' = r.i + 1
     /\ estimatedTimeRemaining' = etaAt(Len(r.validUrls), r.i, elapsedMs)
     /\ requests' = Append(requests, url)
     /\ run' = [r EXCEPT !.pc = "fetching", !.h = h, !.elapsedMs = elapsedMs]

\* the statements after the loop without setResults: the summary is set,
\* the results stay as they are
Finish_summaryOnly(r) ==
  /\ results' = results
  /\ summary' = calculateSummary(r.newResults)
  /\ isAuditing' = FALSE
  /\ currentUrl' = <<>>
  /\ estimatedTimeRemaining' = 0
  /\ run' = [r EXCEPT !.pc = "done", !.h = 0]
  /\ UNCHANGED <<requests, currentIndex>>

\* the statements after the loop
Finish(r) ==
  /\ results' = r.newResults
  /\ summary' = calculateSummary(r.newResults)
  /\ isAuditing' = FALSE
  /\ currentUrl' = <<>>
  /\ estimatedTimeRemaining' = 0
  /\ run' = [r EXCEPT !.pc = "done", !.h = 0]
  /\ UNCHANGED <<requests, currentIndex>>

\* the rest of an iteration after the push, and what follows it: the next
\* iteration up to its fetch, or the statements after the loop
AfterPush(pushed, times) ==
  LET r == iterationEnd(pushed)
  IN /\ progress' = [num |-> pushed.i + 1, den |-> Len(pushed.validUrls)]
     /\ IF r.i < Len(r.validUrls)
        THEN /\ \E t \in times : t >= r.elapsedMs /\ IterationStart(r, t)
             /\ UNCHANGED <<results, summary, isAuditing>>
        ELSE Finish(r)
     /\ UNCHANGED <<urls, totalUrls, error, harnessVars>>

\* a request fails on the way
Fault ==
  /\ faults < MaxFaults
  /\ faults' = faults + 1

\* the handlers after the client has gone on: the request of the next
\* iteration, if there is one, is on its way
SendNext(hs) ==
  IF run'.pc = "fetching"
  THEN [hs EXCEPT ![run'.h] = HandlerSent(Str(run'.validUrls[run'.i + 1]))]
  ELSE hs

\* onChange of the textarea
SetUrls(texts) ==
  /\ ~isAuditing
  /\ \E t \in texts : urls' = t
  /\ urls' # urls
  /\ UNCHANGED <<harnessVars, serverVars, requests, faults, isAuditing,
                 progress, currentUrl, currentIndex, totalUrls,
                 estimatedTimeRemaining, results, summary, error, run>>

\* the state of the last batch reset before the urls are looked at
StartAuditNoValid_resets ==
  /\ ~isAuditing
  /\ trim(urls) # <<>>
  /\ validateUrls(urlListOf(urls)) = <<>>
  /\ error' = NoValidUrlMsg
  /\ progress' = [num |-> 0, den |-> 1]
  /\ results' = <<>>
  /\ summary' = NoSummary
  /\ UNCHANGED <<harnessVars, serverVars, requests, faults, urls,
                 isAuditing, currentUrl, currentIndex, totalUrls,
                 estimatedTimeRemaining, run>>

\* startAudit finds no valid url: only the error message is set
StartAuditNoValid ==
  /\ ~isAuditing
  /\ trim(urls) # <<>>
  /\ validateUrls(urlListOf(urls)) = <<>>
  /\ error' = NoValidUrlMsg
  /\ UNCHANGED <<harnessVars, serverVars, requests, faults, urls,
                 isAuditing, progress, currentUrl, currentIndex, totalUrls,
                 estimatedTimeRemaining, results, summary, run>>

\* startAudit up to the await of the first fetch (the rough estimate of 20 s
\* per url is overwritten by the first iteration before anything is rendered)
StartAudit ==
  LET urlList == urlListOf(urls)
      validUrls == validateUrls(urlList)
  IN /\ ~isAuditing
     /\ trim(urls) # <<>>
     /\ validUrls # <<>>
     /\ Len(requests) + Len(validUrls) <= MaxRequests
     /\ error' = IF Len(validUrls) # Len(urlList) THEN RemovedMsg ELSE ""
     /\ isAuditing' = TRUE
     /\ progress' = [num |-> 0, den |-> 1]
     /\ results' = <<>>
     /\ summary' = NoSummary
     /\ totalUrls' = Len(validUrls)
     /\ IterationStart([RunIdle EXCEPT !.validUrls = validUrls,
                                        !.base = Len(requests)], 0)
     /\ handlers' = SendNext(handlers)
     /\ UNCHANGED <<harnessVars, urls, faults>>

\* how a fetch that was answered by the handler ended
HttpKind(status) ==
  CASE status = 200 -> "ok"
    [] status = 400 -> "http400"
    [] status = 500 -> "http500"

\* fetch and response.json() resolve with the answer of the handler
FetchResponse(times) ==
  /\ run.pc = "fetching"
  /\ handlers[run.h].pc = "responded"
  /\ AfterPush([run EXCEPT !.newResults =
                  tryPush(@, run.validUrls[run.i + 1], handlers[run.h].resp),
                           !.settled =
                  Append(@, HttpKind(handlers[run.h].resp.status))],
               times)
  /\ handlers' = SendNext([handlers EXCEPT ![run.h] = HandlerDone(@)])
  /\ UNCHANGED faults

\* fetch rejects: the connection is refused or lost, whatever the handler is
\* doing
FetchRejected(times, messages) ==
  /\ run.pc = "fetching"
  /\ Fault
  /\ \E m \in messages :
       AfterPush([run EXCEPT !.newResults =
                    catchPush(@, run.validUrls[run.i + 1], m),
                             !.settled = Append(@, "rejected")],
                 times)
  /\ handlers' = SendNext([handlers EXCEPT ![run.h] = Abandon(@)])

\* fetch resolves with a response that is not the handler's (an error page
\* of a proxy in front of it) and response.json() rejects
JsonRejected(times, messages) ==
  /\ run.pc = "fetching"
  /\ Fault
  /\ \E m \in messages :
       AfterPush([run EXCEPT !.newResults =
                    catchPush(@, run.validUrls[run.i + 1], m),
                             !.settled = Append(@, "badjson")],
                 times)
  /\ handlers' = SendNext([handlers EXCEPT ![run.h] = Abandon(@)])

\* clearResults
ClearResults ==
  /\ ~isAuditing
  /\ urls' = <<>>
  /\ results' = <<>>
  /\ summary' = NoSummary
  /\ error' = ""
  /\ progress' = [num |-> 0, den |-> 1]
  /\ run' = RunIdle
  /\ UNCHANGED <<harnessVars, serverVars, requests, faults, isAuditing,
                 currentUrl, currentIndex, totalUrls, estimatedTimeRemaining>>

\* ------------------------------------------------------------------------
\* Inputs
\* ------------------------------------------------------------------------

\* script urls of bootup-time items that load a GTM container, each with the
\* container id it names
ScriptAAA == <<"h","t","t","p","s",":","/","/","g",".","c","o","/","g","t","m",".","j","s","?","i","d","=","G","T","M","-","A","A","A">>
ScriptBBB == <<"h","t","t","p","s",":","/","/","g",".","c","o","/","g","t","m",".","j","s","?","i","d","=","G","T","M","-","B","B","B">>
ScriptX == <<"h","t","t","p","s",":","/","/","g",".","c","o","/","g","t","m",".","j","s","?","i","d","=","G","T","M","-","X","&","l","=","d","a","t","a","L","a","y","e","r">>
ScriptY == <<"/","/","g",".","c","o","/","g","t","m",".","j","s","?","i","d","=","G","T","M","-","Y","9">>
IdAAA == <<"G","T","M","-","A","A","A">>
IdBBB == <<"G","T","M","-","B","B","B">>
IdX == <<"G","T","M","-","X">>
IdY == <<"G","T","M","-","Y","9">>
GtmScripts == {ScriptAAA, ScriptBBB, ScriptX, ScriptY}
IdOfScript(u) ==
  CASE u = ScriptAAA -> IdAAA
    [] u = ScriptBBB -> IdBBB
    [] u = ScriptX -> IdX
    [] u = ScriptY -> IdY

\* script urls that load no GTM container
ScriptLower == <<"h","t","t","p","s",":","/","/","g",".","c","o","/","g","t","m",".","j","s","?","i","d","=","G","T","M","-","a","b","c">>
ScriptGtag == <<"h","t","t","p","s",":","/","/","g",".","c","o","/","g","t","a","g","/","j","s","?","i","d","=","G","-","1","2","A","B">>
ScriptApp == <<"h","t","t","p","s",":","/","/","a",".","c","o","m","/","a","p","p",".","j","s">>
ScriptNoId == <<"h","t","t","p","s",":","/","/","g",".","c","o","/","g","t","m",".","j","s","?","i","d","=","G","T","M","-">>
OtherScripts == {ScriptLower, ScriptGtag, ScriptApp, ScriptNoId}

Item(url, total, scripting, parse) ==
  [url |-> url, total |-> total, scripting |-> scripting,
   scriptParseCompile |-> parse]

Report(items) == [hasBootup |-> TRUE, items |-> items]
\* a Lighthouse result without bootup-time items
ReportNoBootup == [hasBootup |-> FALSE, items |-> <<>>]

\* the items of the reports handed to extractMetrics in SpecExtract
ItemPool ==
  { Item(u, t[1], t[2], t[3]) :
      u \in {Str(ScriptAAA), Str(ScriptBBB), Str(ScriptX), Str(ScriptLower),
             Str(ScriptGtag), Str(ScriptNoId), NotAString},
      t \in { <<Num(100), Num(60), Num(30)>>, <<Undef, Undef, Undef>> } }

ExtractInputs ==
  {ReportNoBootup}
    \cup { Report(items) :
             items \in UNION { [1..n -> ItemPool] : n \in 0..MaxItems } }

\* the reports the oracle may return for one round in SpecAudit
ItemX(t) == Item(Str(ScriptX), Num(t), Num(t - 40), Num(7))
ItemY(t) == Item(Str(ScriptY), Num(t), Num(3), Undef)
ItemOther == Item(Str(ScriptApp), Num(900), Num(800), Num(90))
AuditReports ==
  { Report(<<ItemX(100)>>),
    Report(<<ItemOther, ItemX(200)>>),
    Report(<<ItemX(300)>>),
    Report(<<ItemX(101), ItemY(50)>>),
    Report(<<ItemY(8), ItemOther>>),
    Report(<<ItemX(100), ItemX(201)>>),
    Report(<<ItemOther>>),
    ReportNoBootup }

ImportErrors == {"Cannot find package 'lighthouse'"}
LaunchErrors == {"No Chrome installations found."}
RunErrors == {"PROTOCOL_TIMEOUT", ""}

\* lines of the textarea, request urls
LineA == <<"h","t","t","p","s",":","/","/","a",".","c","o","m">>
LineB == <<"h","t","t","p",":","/","/","b",".","o","r","g","/","x">>
LineC == <<"h","t","t","p","s",":","/","/","c",".","i","o">>
LineSpace == <<"h","t","t","p",":","/","/","b"," ","c">>
LineNotUrl == <<"n","o","t","-","a","-","u","r","l">>
LineFtp == <<"f","t","p",":","/","/","b",".","c","o","m">>

\* the url of the body of a request sent to POST directly
AuditRequestUrls ==
  {Str(LineA), Str(LineSpace), Str(LineNotUrl), Str(LineFtp), Str(<<>>),
   NotAString}

\* ------------------------------------------------------------------------
\* Initial states
\* ------------------------------------------------------------------------


NotExtracted ==
  [done |-> FALSE, threw |-> FALSE, error |-> "", gtmMetrics |-> <<>>]

\* the component as first rendered
ClientInit ==
  /\ requests = <<>>
  /\ faults = 0
  /\ urls = <<>>
  /\ isAuditing = FALSE
  /\ progress = [num |-> 0, den |-> 1]
  /\ currentUrl = <<>>
  /\ currentIndex = 0
  /\ totalUrls = 0
  /\ estimatedTimeRemaining = 0
  /\ results = <<>>
  /\ summary = NoSummary
  /\ error = ""
  /\ run = RunIdle

\* no file has been written
NoCsv == [written |-> FALSE, headers |-> <<>>, rows |-> <<>>]

\* no value has been classified
NoBadge == [value |-> 0, type |-> "cpu", status |-> "none"]

HarnessIdle ==
  /\ lhrIn = ReportNoBootup
  /\ extracted = NotExtracted
  /\ badge = NoBadge
  /\ rawRuns = <<>>
  /\ csv = NoCsv

\* ------------------------------------------------------------------------
\* SpecExtract: extractMetrics applied to a raw report
\* ------------------------------------------------------------------------

InitExtract ==
  /\ lhrIn \in ExtractInputs
  /\ extracted = NotExtracted
  /\ badge = NoBadge
  /\ rawRuns = <<>>
  /\ csv = NoCsv
  /\ handlers = [h \in HandlerIds |-> HandlerIdle]
  /\ ClientInit

Extract ==
  /\ ~extracted.done
  /\ LET ex == extractMetrics(lhrIn)
     IN extracted' = [done |-> TRUE, threw |-> ex.threw, error |-> ex.error,
                      gtmMetrics |-> ex.gtmMetrics]
  /\ UNCHANGED <<lhrIn, badge, rawRuns, csv, serverVars, clientVars>>

NextExtract == Extract

SpecExtract == InitExtract /\ [][NextExtract]_vars

\* ------------------------------------------------------------------------
\* SpecAudit: one request handled by POST and auditURL
\* ------------------------------------------------------------------------

InitAudit ==
  /\ HarnessIdle
  /\ \E u \in AuditRequestUrls :
       handlers = [h \in HandlerIds |->
                     IF h = 1 THEN HandlerSent(u) ELSE HandlerIdle]
  /\ ClientInit

NextAudit ==
  \/ Receive(1)
  \/ ImportSettled(1, ImportErrors)
  \/ LaunchSettled(1, LaunchErrors)
  \/ ProbeSettled(1)
  \/ RoundSettled(1, AuditReports, RunErrors)
  \/ KillSettled(1)

SpecAudit == InitAudit /\ [][NextAudit]_vars

\* ------------------------------------------------------------------------
\* Spec: batches run by the client against the server
\* ------------------------------------------------------------------------

\* the reports the oracle may return for one round
BatchReports == { Report(<<ItemOther, ItemX(100)>>), Report(<<ItemOther>>) }
BatchRunErrors == {""}

\* readings of Date.now() - startTime
ElapsedChoices == {0, 30000}

FetchErrors == {"Failed to fetch"}
JsonErrors == {"Unexpected token < in JSON at position 0"}

\* contents of the textarea: three lines that pass validateUrls, with
\* blanks and an empty line, the second one not accepted by new URL
TextThree ==
  <<" ","h","t","t","p","s",":","/","/","a",".","c","o","m"," ","\n","\n","h","t","t","p",":","/","/","b"," ","c","\n","h","t","t","p","s",":","/","/","c",".","i","o">>
\* one valid line of three
TextOneOfThree ==
  <<"h","t","t","p","s",":","/","/","a",".","c","o","m","\n","n","o","t","-","a","-","u","r","l","\n","f","t","p",":","/","/","b",".","c","o","m">>
\* no valid line
TextNoneValid == <<"n","o","t","-","a","-","u","r","l">>

InputTexts ==
  { TextThree, TextOneOfThree, TextNoneValid }

Init ==
  /\ HarnessIdle
  /\ handlers = [h \in HandlerIds |-> HandlerIdle]
  /\ ClientInit

Next ==
  \/ SetUrls(InputTexts)
  \/ StartAuditNoValid
  \/ StartAudit
  \/ FetchResponse(ElapsedChoices)
  \/ FetchRejected(ElapsedChoices, FetchErrors)
  \/ JsonRejected(ElapsedChoices, JsonErrors)
  \/ ClearResults
  \/ \E h \in HandlerIds :
       \/ Receive(h)
       \/ ImportSettled(h, ImportErrors)
       \/ LaunchSettled(h, LaunchErrors)
       \/ ProbeSettled(h)
       \/ RoundSettled(h, BatchReports, BatchRunErrors)
       \/ KillSettled(h)

Spec == Init /\ [][Next]_vars

\* ------------------------------------------------------------------------
\* Properties of extractMetrics (SpecExtract)
\* ------------------------------------------------------------------------

\* the item loads a GTM container, by the labelling of the input scripts
IsGtmItem(item) == item.url.isString /\ item.url.s \in GtmScripts

\* the container ids of the GTM items of a list, in order
RECURSIVE ExpectedIds(_)
ExpectedIds(items) ==
  IF items = <<>> THEN <<>>
  ELSE (IF IsGtmItem(Head(items))
        THEN <<IdOfScript(Head(items).url.s)>> ELSE <<>>)
       \o ExpectedIds(Tail(items))

IdsOf(metrics) == [k \in 1..Len(metrics) |-> metrics[k].containerId]

\* C7: a report without a GTM item (no bootup-time items at all, items whose
\* url is not a string, other scripts only) makes extractMetrics throw the
\* no-container error and return no metrics
C7_NoContainerThrows ==
  (extracted.done /\ ExpectedIds(lhrIn.items) = <<>>)
    => /\ extracted.threw
       /\ extracted.error = NoContainerMsg
       /\ extracted.gtmMetrics = <<>>

C7_Witness ==
  /\ extracted.done
  /\ extracted.threw
  /\ lhrIn.hasBootup
  /\ \E k \in 1..Len(lhrIn.items) : ~lhrIn.items[k].url.isString
  /\ \E k \in 1..Len(lhrIn.items) : lhrIn.items[k].url.isString

\* C8: extractMetrics returns one metric for every GTM item, in order and with
\* the id of its script url, and nothing for the other items
C8_OnePerGtmEntry ==
  (extracted.done /\ ExpectedIds(lhrIn.items) # <<>>)
    => /\ ~extracted.threw
       /\ IdsOf(extracted.gtmMetrics) = ExpectedIds(lhrIn.items)

C8_Witness ==
  /\ extracted.done
  /\ IdsOf(extracted.gtmMetrics) = <<IdAAA, IdBBB>>
  /\ Len(lhrIn.items) = 3

\* ------------------------------------------------------------------------
\* Properties of auditURL (SpecAudit)
\* ------------------------------------------------------------------------

\* C1: a launched Chrome is killed once on every way out of auditURL, and
\* chrome.kill() is never called twice or without a launch
C1_SessionReleasedOnce ==
  \A h \in HandlerIds :
    /\ handlers[h].kills <= handlers[h].launches
    /\ handlers[h].launches <= 1
    /\ handlers[h].pc \in {"responded", "done"}
         => /\ handlers[h].kills = handlers[h].launches
            /\ ~handlers[h].alive

\* round 2 of 3 threw and the handler has answered
C1_Witness ==
  /\ handlers[1].pc = "responded"
  /\ handlers[1].err.set
  /\ handlers[1].i = 1
  /\ handlers[1].launches = 1
  /\ handlers[1].kills = 1

\* the samples of one field for one container id over all runs
FieldSamples(runs, id, field) ==
  LET flat == flattenRuns(runs)
      mine == SelectSeq(flat, LAMBDA m : m.containerId = id)
  IN [k \in 1..Len(mine) |-> mine[k][field]]

MetricFields == {"totalCpuTime", "scriptEvaluation", "scriptParseTime"}

Abs(x) == IF x < 0 THEN -x ELSE x

\* v is an integer nearest to the mean of the samples
NearestToMean(v, samples) ==
  /\ Len(samples) > 0
  /\ 2 * Abs(Len(samples) * v - SumSeq(samples)) <= Len(samples)

SeenIds(runs) ==
  {flattenRuns(runs)[k].containerId : k \in 1..Len(flattenRuns(runs))}

\* the handler answered with the averaged metrics
Answered200(h) == handlers[h].pc = "responded" /\ handlers[h].resp.status = 200

\* C9: every container id seen in the runs has an averaged metric, and each
\* of its three fields is the mean of that field's samples rounded to the
\* nearest integer
C9_RoundedMeanPerField ==
  \A h \in HandlerIds :
    Answered200(h) =>
      LET out == handlers[h].resp.body.gtmMetrics
      IN /\ \A id \in SeenIds(handlers[h].runs) :
              \E k \in 1..Len(out) : out[k].containerId = id
         /\ \A k \in 1..Len(out) : \A f \in MetricFields :
              NearestToMean(out[k][f],
                            FieldSamples(handlers[h].runs, out[k].containerId, f))

\* GTM-X measured with 100, 200 and 300 ms is reported with 200 ms
C9_Witness ==
  /\ Answered200(1)
  /\ FieldSamples(handlers[1].runs, IdX, "totalCpuTime") = <<100, 200, 300>>
  /\ \E k \in 1..Len(handlers[1].resp.body.gtmMetrics) :
       /\ handlers[1].resp.body.gtmMetrics[k].containerId = IdX
       /\ handlers[1].resp.body.gtmMetrics[k].totalCpuTime = 200

\* the number of runs in which the container id appeared
RoundsWith(runs, id) ==
  Cardinality({r \in 1..Len(runs) :
                 \E k \in 1..Len(runs[r]) : runs[r][k].containerId = id})

SeqMin(samples) ==
  CHOOSE v \in {samples[k] : k \in 1..Len(samples)} :
    \A k \in 1..Len(samples) : v <= samples[k]

\* C10: a container id missing from some runs is averaged over its own
\* samples: the result is the rounded mean over the samples collected and is
\* not pulled below the smallest sample by the missing runs
C10_AveragedOverAppearances ==
  \A h \in HandlerIds :
    Answered200(h) =>
      LET out == handlers[h].resp.body.gtmMetrics
      IN \A k \in 1..Len(out) :
           RoundsWith(handlers[h].runs, out[k].containerId) < numberOfRuns
             => \A f \in MetricFields :
                  LET samples == FieldSamples(handlers[h].runs,
                                              out[k].containerId, f)
                  IN /\ out[k][f] >= SeqMin(samples)
                     /\ 2 * Abs(Len(samples) * out[k][f] - SumSeq(samples))
                          <= Len(samples)

\* GTM-Y9 appeared in one run only, with 50 ms, and is reported with 50 ms
C10_Witness ==
  /\ Answered200(1)
  /\ RoundsWith(handlers[1].runs, IdY) = 1
  /\ \E k \in 1..Len(handlers[1].resp.body.gtmMetrics) :
       /\ handlers[1].resp.body.gtmMetrics[k].containerId = IdY
       /\ handlers[1].resp.body.gtmMetrics[k].totalCpuTime = 50

\* ------------------------------------------------------------------------
\* Properties of the batch (Spec)
\* ------------------------------------------------------------------------

\* the urls of the requests the startAudit invocation has issued
IssuedByRun == SubSeq(requests, run.base + 1, Len(requests))

\* C2: startAudit has one result for every finished iteration and ends with
\* one result for every validated url, whatever succeeded and failed; no
\* iteration leaves the loop by an exception
C2_OneResultPerUrl ==
  /\ run.pc = "fetching"
       => /\ run.i < Len(run.validUrls)
          /\ Len(run.newResults) = run.i
  /\ run.pc = "done"
       => /\ results = run.newResults
          /\ Len(results) = Len(run.validUrls)
          /\ Len(results) = totalUrls

\* a batch of three urls has ended with successes and failures
C2_Witness ==
  /\ run.pc = "done"
  /\ Len(run.validUrls) = 3
  /\ Len(results) = 3
  /\ \E k \in 1..3 : results[k].status = "success"
  /\ \E k \in 1..3 : results[k].status = "error"

\* C3: a fetch that does not end with an OK answer (status 400 or 500 of the
\* handler, rejection, unparseable body) leaves a result with status 'error'
\* at its index, and the requests for all later urls are still issued
C3_FailureIsolated ==
  /\ run.pc \in {"fetching", "done"}
       => /\ Len(run.settled) = Len(run.newResults)
          /\ \A k \in 1..Len(run.settled) :
               run.settled[k] # "ok" => run.newResults[k].status = "error"
  /\ run.pc = "fetching" => IssuedByRun = SubSeq(run.validUrls, 1, run.i + 1)
  /\ run.pc = "done" => IssuedByRun = run.validUrls

\* the first url failed at the server and the third one was audited
C3_Witness ==
  /\ run.pc = "done"
  /\ Len(run.validUrls) = 3
  /\ run.settled[1] = "http500"
  /\ run.settled[2] = "http400"
  /\ results[3].status = "success"

\* C4: the i-th result of a batch is the result of the i-th validated url
C4_ResultsInInputOrder ==
  /\ run.pc \in {"fetching", "done"}
       => \A k \in 1..Len(run.newResults) :
            run.newResults[k].url = run.validUrls[k]
  /\ run.pc = "done"
       => /\ Len(results) = Len(run.validUrls)
          /\ \A k \in 1..Len(results) : results[k].url = run.validUrls[k]

\* [A, B, C] with B failing gives [A success, B error, C success]
C4_Witness ==
  /\ run.pc = "done"
  /\ run.validUrls = <<LineA, LineSpace, LineC>>
  /\ [k \in 1..Len(results) |-> results[k].status]
       = <<"success", "error", "success">>
  /\ [k \in 1..Len(results) |-> results[k].url] = <<LineA, LineSpace, LineC>>

\* the handlers of the requests of the startAudit invocation
HandlersOfRun == {h \in HandlerIds : run.base < h /\ h <= Len(requests)}

\* C5: no two Chrome sessions launched for requests of the same batch are
\* alive at the same time: when the request for a url is issued, the sessions
\* of the earlier urls of the batch have been released
C5_AtMostOneSession ==
  run.pc \in {"fetching", "done"}
    => Cardinality({h \in HandlersOfRun : handlers[h].alive}) <= 1

\* the shape every AuditResult of a result list has
WellFormedResult(r) ==
  /\ r.status \in {"success", "error"}
  /\ r.status = "error"
       => r.gtmMetrics = <<>> /\ r.error.set /\ r.error.msg # ""
  /\ r.status = "success" => r.gtmMetrics # <<>>

\* C6: in every result of the client and in every AuditResult POST answers
\* with, status 'error' goes with empty gtmMetrics and an error, status
\* 'success' with metrics
C6_StatusMatchesMetrics ==
  /\ \A k \in 1..Len(results) : WellFormedResult(results[k])
  /\ \A k \in 1..Len(run.newResults) : WellFormedResult(run.newResults[k])
  /\ \A h \in HandlerIds :
       handlers[h].pc = "responded" =>
         LET body == handlers[h].resp.body
         IN /\ body.status = "error"
                 => body.gtmMetrics = <<>> /\ body.error.set
            /\ body.status = "success" => body.gtmMetrics # <<>>

\* a result list with a success and with a failure whose message the server
\* left empty
C6_Witness ==
  /\ run.pc = "done"
  /\ \E k \in 1..Len(results) :
       results[k].status = "success" /\ Len(results[k].gtmMetrics) = 1
  /\ \E k \in 1..Len(results) :
       results[k].status = "error" /\ results[k].error.msg = "HTTP 500"

\* ------------------------------------------------------------------------
\* Failed rounds of auditURL (SpecAudit)
\* ------------------------------------------------------------------------

\* C11 as stated: an audit in which at least one round succeeded is answered
\* with the averaged metrics of the rounds that succeeded
C11_FailsOnlyIfNoRoundSucceeds ==
  \A h \in HandlerIds :
    LET hr == handlers[h]
    IN (hr.pc = "responded" /\ hr.runs # <<>>)
         => /\ hr.resp.status = 200
            /\ hr.resp.body.gtmMetrics = averagedOf(hr.runs)

\* C11, amended: auditURL returns averaged metrics exactly when all
\* numberOfRuns rounds succeeded, and then they are the averages over all of
\* them; an audit with fewer successful rounds is answered with a failure,
\* however many rounds succeeded before the failed one
C11_SucceedsOnlyIfAllRoundsSucceed ==
  \A h \in HandlerIds :
    LET hr == handlers[h]
    IN (hr.pc = "responded" /\ hr.launches > 0)
         => /\ (hr.resp.status = 200) <=> (Len(hr.runs) = numberOfRuns)
            /\ hr.resp.status = 200 =>
                  /\ hr.resp.body.status = "success"
                  /\ hr.resp.body.gtmMetrics = averagedOf(hr.runs)
            /\ hr.resp.status # 200 =>
                  /\ hr.resp.status = 500
                  /\ hr.resp.body.status = "error"
                  /\ hr.resp.body.gtmMetrics = <<>>

\* two rounds succeeded, the third failed, and the audit failed
C11_Witness ==
  /\ handlers[1].pc = "responded"
  /\ Len(handlers[1].runs) = 2
  /\ handlers[1].resp.status = 500

\* C12: a round that fails ends the audit: the handler goes straight to the
\* finally block, no further round is run or recorded after it, and the
\* answer is a failure without metrics that carries the error of that round
C12_RoundFailureAborts ==
  /\ [](\A h \in HandlerIds :
          LET hr == handlers[h]
          IN hr.err.set =>
               /\ hr.pc \in {"killing", "responded"}
               /\ hr.i = Len(hr.runs)
               /\ hr.i < numberOfRuns
               /\ hr.pc = "responded" =>
                     /\ hr.resp.status = 500
                     /\ hr.resp.body.status = "error"
                     /\ hr.resp.body.gtmMetrics = <<>>
                     /\ hr.resp.body.error = hr.err)
  /\ [][\A h \in HandlerIds :
          handlers[h].err.set =>
            /\ handlers'[h].i = handlers[h].i
            /\ handlers'[h].runs = handlers[h].runs
            /\ handlers'[h].err = handlers[h].err]_vars

\* the extraction of the second round threw after a successful first round,
\* and the answer was sent
C12_Witness ==
  /\ handlers[1].pc = "responded"
  /\ handlers[1].err = Err(NoContainerMsg)
  /\ Len(handlers[1].runs) = 1

\* ------------------------------------------------------------------------
\* The pre-filter of the batch (Spec)
\* ------------------------------------------------------------------------

\* the line parses as a URL and its scheme is http or https
IsHttpUrl(line) ==
  /\ ~newURLThrows(line)
  /\ [k \in 1..(SchemeEnd(line) - 1) |-> ToLower(line[k])]
       \in { <<"h","t","t","p">>, <<"h","t","t","p","s">> }

\* the line begins with http:// or https:// in lower case, followed by a
\* character that does not end a line
StartsWithHttp(line) ==
  \E n \in {7, 8} :
    /\ Len(line) > n
    /\ SubSeq(line, 1, n) \in { <<"h","t","t","p",":","/","/">>,
                                <<"h","t","t","p","s",":","/","/">> }
    /\ line[n + 1] \notin {"\n", "\r"}

UrlsOf(rs) == { rs[k].url : k \in 1..Len(rs) }
Elements(seq) == { seq[k] : k \in 1..Len(seq) }

\* C13 as stated: the urls of a batch are exactly the lines of the textarea
\* that are a URL with scheme http or https
C13_KeepsExactlyHttpUrls ==
  isAuditing => run.validUrls = SelectSeq(urlListOf(urls), IsHttpUrl)

\* C13, amended: the urls of a batch are exactly the trimmed non-empty lines
\* that begin with http:// or https:// followed by at least one character,
\* in the order of the text; only these are sent to the endpoint and only
\* these have results. Such a line need not parse as a URL
C13_KeepsExactlyHttpPrefixed ==
  /\ isAuditing =>
       /\ run.validUrls = SelectSeq(urlListOf(urls), StartsWithHttp)
       /\ Elements(IssuedByRun) \subseteq Elements(run.validUrls)
       /\ UrlsOf(run.newResults) \subseteq Elements(run.validUrls)
       /\ urls = TextOneOfThree => run.validUrls = <<LineA>>
  /\ run.pc = "done" => UrlsOf(results) \subseteq Elements(run.validUrls)

\* the batch of the three-line text, of which one line is no URL and one is
\* ftp: only the first line was sent, and the batch is over
C13_Witness ==
  /\ run.pc = "done"
  /\ urls = TextOneOfThree
  /\ IssuedByRun = <<LineA>>
  /\ UrlsOf(results) = {LineA}

\* ------------------------------------------------------------------------
\* SpecSummary: calculateSummary applied to a list of results
\* ------------------------------------------------------------------------

\* the longest list of results handed to calculateSummary
MaxResults == 3

Metric(id, cpu, eval, parse) ==
  [containerId |-> id, totalCpuTime |-> cpu, scriptEvaluation |-> eval,
   scriptParseTime |-> parse]

Success(url, metrics) ==
  [url |-> url, status |-> "success", error |-> NoErr, gtmMetrics |-> metrics]

Failure(url, message) ==
  [url |-> url, status |-> "error", error |-> Err(message),
   gtmMetrics |-> <<>>]

\* results as the loop of startAudit collects them: answers of the endpoint
\* and results made by the catch block
SummaryResults ==
  { Success(LineA, <<Metric(IdX, 100, 60, 7)>>),
    Success(LineB, <<Metric(IdX, 200, 160, 7), Metric(IdY, 300, 3, 0)>>),
    Success(LineC, <<Metric(IdAAA, 101, 61, 8)>>),
    Success(LineC, <<>>),
    Failure(LineSpace, InvalidFormatMsg),
    Failure(LineA, "Failed to fetch") }

InitSummary ==
  /\ HarnessIdle
  /\ handlers = [h \in HandlerIds |-> HandlerIdle]
  /\ requests = <<>>
  /\ faults = 0
  /\ urls = <<>>
  /\ isAuditing = FALSE
  /\ progress = [num |-> 0, den |-> 1]
  /\ currentUrl = <<>>
  /\ currentIndex = 0
  /\ totalUrls = 0
  /\ estimatedTimeRemaining = 0
  /\ results \in UNION { [1..n -> SummaryResults] : n \in 0..MaxResults }
  /\ summary = NoSummary
  /\ error = ""
  /\ run = RunIdle

\* setSummary(calculateSummary(results))
Summarize ==
  /\ summary.isNull
  /\ summary' = calculateSummary(results)
  /\ UNCHANGED <<harnessVars, serverVars, requests, faults, urls, isAuditing,
                 progress, currentUrl, currentIndex, totalUrls,
                 estimatedTimeRemaining, results, error, run>>

NextSummary == Summarize

SpecSummary == InitSummary /\ [][NextSummary]_vars

\* ------------------------------------------------------------------------
\* Properties of calculateSummary (SpecSummary)
\* ------------------------------------------------------------------------

\* the containers of the successful results, and the sum of one of their
\* fields
RECURSIVE ContainersOfSuccesses(_)
ContainersOfSuccesses(rs) ==
  IF rs = <<>> THEN 0
  ELSE (IF Head(rs).status = "success" THEN Len(Head(rs).gtmMetrics) ELSE 0)
       + ContainersOfSuccesses(Tail(rs))

RECURSIVE FieldTotal(_, _)
FieldTotal(ms, field) ==
  IF ms = <<>> THEN 0 ELSE Head(ms)[field] + FieldTotal(Tail(ms), field)

RECURSIVE FieldTotalOfSuccesses(_, _)
FieldTotalOfSuccesses(rs, field) ==
  IF rs = <<>> THEN 0
  ELSE (IF Head(rs).status = "success"
        THEN FieldTotal(Head(rs).gtmMetrics, field) ELSE 0)
       + FieldTotalOfSuccesses(Tail(rs), field)

\* C14: the summary of a list without a container of a successful result
\* (the empty list, failures only, successes without containers) has
\* totalContainers 0 and the three averages 0
C14_ZeroContainersZeroAverages ==
  (~summary.isNull /\ ContainersOfSuccesses(results) = 0)
    => /\ summary.totalContainers = 0
       /\ summary.averageCpuTime = 0
       /\ summary.averageScriptEval = 0
       /\ summary.averageParseTime = 0

\* the summary of the empty list
C14_Witness ==
  /\ ~summary.isNull
  /\ results = <<>>

\* avg is sum / n rounded to the nearest integer, halves upwards
IsRoundedMean(avg, sum, n) ==
  /\ 2 * avg * n <= 2 * sum + n
  /\ 2 * avg * n > 2 * sum - n

\* C15: with at least one container, each average is the rounded mean of its
\* field over all containers of all successful results, every container
\* counting once: [100] and [200, 300] give averageCpuTime 200
C15_MeanOverAllContainers ==
  (~summary.isNull /\ ContainersOfSuccesses(results) > 0)
    => /\ IsRoundedMean(summary.averageCpuTime,
                        FieldTotalOfSuccesses(results, "totalCpuTime"),
                        ContainersOfSuccesses(results))
       /\ IsRoundedMean(summary.averageScriptEval,
                        FieldTotalOfSuccesses(results, "scriptEvaluation"),
                        ContainersOfSuccesses(results))
       /\ IsRoundedMean(summary.averageParseTime,
                        FieldTotalOfSuccesses(results, "scriptParseTime"),
                        ContainersOfSuccesses(results))
       /\ (Len(results) = 2
           /\ results[1].gtmMetrics = <<Metric(IdX, 100, 60, 7)>>
           /\ Len(results[2].gtmMetrics) = 2)
            => summary.averageCpuTime = 200

\* the summary of a result with one container at 100 followed by a result
\* with two containers at 200 and 300
C15_Witness ==
  /\ ~summary.isNull
  /\ Len(results) = 2
  /\ results[1].gtmMetrics = <<Metric(IdX, 100, 60, 7)>>
  /\ Len(results[2].gtmMetrics) = 2
  /\ summary.averageCpuTime = 200

\* the list with one more result at position k + 1
InsertAt(rs, k, r) == SubSeq(rs, 1, k) \o <<r>> \o SubSeq(rs, k + 1, Len(rs))

\* C16: totalUrls counts the results, successfulAudits the successes,
\* totalContainers the containers of the successes; a failed result more, at
\* any position, changes totalUrls only
C16_CountsOverSuccesses ==
  ~summary.isNull
    => /\ summary.totalUrls = Len(results)
       /\ summary.successfulAudits =
            Cardinality({k \in 1..Len(results) : results[k].status = "success"})
       /\ summary.totalContainers = ContainersOfSuccesses(results)
       /\ \A k \in 0..Len(results) :
            \A r \in {x \in SummaryResults : x.status = "error"} :
              calculateSummary(InsertAt(results, k, r))
                = [summary EXCEPT !.totalUrls = @ + 1]

\* the summary of a list with a failure between two successes
C16_Witness ==
  /\ ~summary.isNull
  /\ Len(results) = 3
  /\ results[1].status = "success"
  /\ results[2].status = "error"
  /\ results[3].status = "success"
  /\ summary.totalUrls = 3
  /\ summary.successfulAudits = 2

\* ------------------------------------------------------------------------
\* SpecStatus: getPerformanceStatus applied to a metric value
\* ------------------------------------------------------------------------

\* the largest metric value classified, in ms
MaxValue == 1100

InitStatus ==
  /\ lhrIn = ReportNoBootup
  /\ extracted = NotExtracted
  /\ \E v \in 0..MaxValue, t \in {"cpu", "script"} :
       badge = [value |-> v, type |-> t, status |-> "none"]
  /\ rawRuns = <<>>
  /\ csv = NoCsv
  /\ handlers = [h \in HandlerIds |-> HandlerIdle]
  /\ ClientInit

\* a cell of the results table is rendered
Classify ==
  /\ badge.status = "none"
  /\ badge' = [badge EXCEPT !.status = getPerformanceStatus(badge.value, badge.type)]
  /\ UNCHANGED <<lhrIn, extracted, rawRuns, csv, serverVars, clientVars>>

NextStatus == Classify

SpecStatus == InitStatus /\ [][NextStatus]_vars

\* C17: a cpu value is good up to 500, warning above 500 up to 1000 and
\* critical above 1000; a script value is good up to 200, warning above 200
\* up to 500 and critical above 500
C17_StatusBoundaries ==
  badge.status # "none" =>
    LET v == badge.value
        w == IF badge.type = "cpu" THEN 500 ELSE 200
        c == IF badge.type = "cpu" THEN 1000 ELSE 500
    IN /\ badge.status \in {"good", "warning", "critical"}
       /\ badge.status = "good" <=> v <= w
       /\ badge.status = "warning" <=> (w < v /\ v <= c)
       /\ badge.status = "critical" <=> v > c
       /\ (badge.type = "cpu" /\ v = 500) => badge.status = "good"
       /\ (badge.type = "cpu" /\ v = 501) => badge.status = "warning"
       /\ (badge.type = "cpu" /\ v = 1000) => badge.status = "warning"
       /\ (badge.type = "cpu" /\ v = 1001) => badge.status = "critical"

\* the cpu value 1000, on the critical threshold, was classified
C17_Witness ==
  badge = [value |-> 1000, type |-> "cpu", status |-> "warning"]

\* ------------------------------------------------------------------------
\* The validation of POST (SpecAudit)
\* ------------------------------------------------------------------------

\* C18: a request whose url is not a string that parses as a URL with scheme
\* http or https is answered with 400 by the first step of the handler,
\* without a Chrome launch and without a round; an answer given after a
\* launch is never a 400, and a failure after the launch is a 500
C18_RejectsBeforeMeasurement ==
  \A h \in HandlerIds :
    LET hr == handlers[h]
    IN /\ (hr.pc \notin {"idle", "sent"}
           /\ ~(hr.url.isString /\ IsHttpUrl(hr.url.s)))
            => /\ hr.pc = "responded"
               /\ hr.resp.status = 400
               /\ hr.launches = 0
               /\ hr.i = 0
       /\ (hr.pc = "responded" /\ hr.launches > 0)
            => /\ hr.resp.status # 400
               /\ hr.err.set => hr.resp.status = 500

\* ------------------------------------------------------------------------
\* SpecLive: the batches of Spec with the steps that are sure to be taken
\* ------------------------------------------------------------------------

\* Once its promise has settled a continuation is run by the event loop: the
\* handler starts on a delivered request, the dynamic imports and the probe
\* of the local DevTools endpoint settle, the client goes on after the
\* answer of the handler. Nothing in the code makes launch(), lighthouse()
\* or chrome.kill() settle; there is no timer, no AbortSignal and no race
\* around them or around fetch.
Fairness ==
  /\ WF_vars(FetchResponse(ElapsedChoices))
  /\ \A h \in HandlerIds :
       /\ WF_vars(Receive(h))
       /\ WF_vars(ImportSettled(h, ImportErrors))
       /\ WF_vars(ProbeSettled(h))

SpecLive == Init /\ [][Next]_vars /\ Fairness

\* C19: a batch that was started comes to its end: isAuditing is false
\* again, whatever the rounds and the Chrome sessions of its urls do
C19_BatchTerminates == isAuditing ~> ~isAuditing

\* ------------------------------------------------------------------------
\* The estimated time remaining (Spec)
\* ------------------------------------------------------------------------

\* C20: while the batch waits for url k + 1 of n, k >= 1 urls completed and
\* the elapsed time read when the k-th completed being t ms, the estimate in
\* seconds is (n - k) * t / k, to the second
C20_EtaIsRemainingTimesAverage ==
  (run.pc = "fetching" /\ run.i >= 1) =>
    LET n == Len(run.validUrls)
        k == run.i
        t == run.elapsedMs
        diff == estimatedTimeRemaining * 1000 * k - (n - k) * t
    IN /\ diff <= 1000 * k
       /\ diff >= 0 - 1000 * k

\* ------------------------------------------------------------------------
\* SpecRound: the timings of three raw reports on their way through
\* extractMetrics, the averaging of auditURL and calculateSummary
\* ------------------------------------------------------------------------

Q(n, d) == [num |-> n, den |-> d]

\* raw timings in ms, none of them negative
RawTimings == { Q(0, 1), Q(1, 4), Q(1, 2), Q(3, 2), Q(401, 4), Q(100, 1) }

\* the reports of one round: one GTM script, or two and another script
RoundReports ==
  { Report(<<Item(Str(ScriptX), Num(q), Num(Q(1, 2)), Num(Q(1, 3)))>>) :
      q \in RawTimings }
    \cup { Report(<<Item(Str(ScriptApp), Num(Q(900, 1)), Num(Q(1601, 2)), Num(Q(90, 1))),
                    Item(Str(ScriptX), Num(Q(1, 4)), Num(Q(2, 3)), Num(Q(0, 1))),
                    Item(Str(ScriptY), Num(Q(7, 2)), Num(Q(5, 2)), Num(Q(1, 2)))>>) }

InitRound ==
  /\ lhrIn = ReportNoBootup
  /\ extracted = NotExtracted
  /\ badge = NoBadge
  /\ rawRuns \in [1..numberOfRuns -> RoundReports]
  /\ csv = NoCsv
  /\ handlers = [h \in HandlerIds |-> HandlerIdle]
  /\ ClientInit

\* the three reports are extracted and averaged, and the answer of POST is
\* the one result of a batch
AverageRuns ==
  /\ results = <<>>
  /\ \A k \in 1..Len(rawRuns) : ~extractMetrics(rawRuns[k]).threw
  /\ results' =
       <<Success(LineA,
                 averagedOfQ([k \in 1..Len(rawRuns) |->
                                extractMetrics(rawRuns[k]).gtmMetrics]))>>
  /\ UNCHANGED <<harnessVars, serverVars, requests, faults, urls, isAuditing,
                 progress, currentUrl, currentIndex, totalUrls,
                 estimatedTimeRemaining, summary, error, run>>

NextRound ==
  \/ AverageRuns
  \/ Summarize

SpecRound == InitRound /\ [][NextRound]_vars

\* the raw timings of one field of the items of a container, over the rounds
RawSamples(id, rawField) ==
  LET items == flattenRuns([k \in 1..Len(rawRuns) |-> rawRuns[k].items])
      sel == SelectSeq(items,
                       LAMBDA it : IsGtmItem(it) /\ IdOfScript(it.url.s) = id)
  IN [j \in 1..Len(sel) |-> sel[j][rawField].n]

\* v is the fraction sum / n rounded to the nearest integer, halves upwards
IsNearestInteger(v, sum, n) ==
  /\ 2 * v * n * sum.den <= 2 * sum.num + n * sum.den
  /\ 2 * v * n * sum.den > 2 * sum.num - n * sum.den

\* C21: with raw timings that are not negative, every metric of a result is
\* a natural number, namely the exact mean of the raw timings rounded once
\* (no timing is rounded on the way to the mean), and the averages of the
\* summary are natural numbers
C21_NonNegativeIntegers ==
  /\ \A k \in 1..Len(results) :
       \A j \in 1..Len(results[k].gtmMetrics) :
         LET m == results[k].gtmMetrics[j]
         IN \A f \in { <<"totalCpuTime", "total">>,
                       <<"scriptEvaluation", "scripting">>,
                       <<"scriptParseTime", "scriptParseCompile">> } :
              LET samples == RawSamples(m.containerId, f[2])
              IN /\ m[f[1]] \in Nat
                 /\ samples # <<>>
                 /\ IsNearestInteger(m[f[1]], SumQ(samples), Len(samples))
  /\ ~summary.isNull =>
       /\ summary.averageCpuTime \in Nat
       /\ summary.averageScriptEval \in Nat
       /\ summary.averageParseTime \in Nat

\* timings of a quarter, a half and one and a half millisecond were averaged
\* to 1 ms, and the summary was made of the result
C21_Witness ==
  /\ rawRuns[1].items[1].total.n = Q(1, 4)
  /\ rawRuns[2].items[1].total.n = Q(1, 2)
  /\ rawRuns[3].items[1].total.n = Q(3, 2)
  /\ Len(results) = 1
  /\ results[1].gtmMetrics[1].totalCpuTime = 1
  /\ summary.totalContainers = 1

\* ------------------------------------------------------------------------
\* Container ids and copied fields (SpecExtract)
\* ------------------------------------------------------------------------

\* GTM-[A-Z0-9]+ and nothing else
IsIdPattern(id) ==
  /\ Len(id) >= 5
  /\ SubSeq(id, 1, 4) = <<"G","T","M","-">>
  /\ \A k \in 5..Len(id) : id[k] \in IdChars

\* the url has gtm.js?id= followed by id, and id ends there
OccursAsId(id, s) ==
  \E p \in 1..Len(s) :
    /\ p + 9 + Len(id) <= Len(s)
    /\ SubSeq(s, p, p + 9) = <<"g","t","m",".","j","s","?","i","d","=">>
    /\ SubSeq(s, p + 10, p + 9 + Len(id)) = id
    /\ (p + 9 + Len(id) = Len(s) \/ s[p + 10 + Len(id)] \notin IdChars)

\* the raw items that load a GTM container, in order
GtmItemsOf(items) == SelectSeq(items, IsGtmItem)

\* C22: every containerId returned by extractMetrics has the form
\* GTM-[A-Z0-9]+ and is the id named after gtm.js?id= in the url of the raw
\* item the metric was made of
C22_IdsMatchPattern ==
  (extracted.done /\ ~extracted.threw) =>
    /\ Len(extracted.gtmMetrics) = Len(GtmItemsOf(lhrIn.items))
    /\ \A k \in 1..Len(extracted.gtmMetrics) :
         /\ IsIdPattern(extracted.gtmMetrics[k].containerId)
         /\ OccursAsId(extracted.gtmMetrics[k].containerId,
                       GtmItemsOf(lhrIn.items)[k].url.s)

\* the id of a url that goes on after the id was extracted
C22_Witness ==
  /\ extracted.done
  /\ Len(extracted.gtmMetrics) = 2
  /\ extracted.gtmMetrics[2].containerId = IdX
  /\ Len(lhrIn.items) = 3
  /\ lhrIn.items[3].url = Str(ScriptX)

\* ------------------------------------------------------------------------
\* The rounds of auditURL (SpecAudit)
\* ------------------------------------------------------------------------

\* C23: a successful audit has run exactly three rounds on the one Chrome
\* launched at its start: the rounds are counted one by one, each while the
\* handler waits for a run with that Chrome alive, and neither the url nor
\* the number of launches changes from the first round on
C23_ThreeRoundsOneSession ==
  /\ [](\A h \in HandlerIds :
          LET hr == handlers[h]
          IN /\ hr.i = Len(hr.runs)
             /\ hr.i <= numberOfRuns
             /\ (hr.pc = "responded" /\ hr.resp.status = 200)
                  => /\ hr.i = 3
                     /\ hr.launches = 1
                     /\ hr.resp.body.url = hr.url.s)
  /\ [][\A h \in HandlerIds :
          /\ handlers'[h].i # handlers[h].i
               => /\ handlers'[h].i = handlers[h].i + 1
                  /\ Len(handlers'[h].runs) = Len(handlers[h].runs) + 1
                  /\ SubSeq(handlers'[h].runs, 1, handlers[h].i) = handlers[h].runs
                  /\ handlers[h].pc = "running"
                  /\ handlers[h].alive
          /\ handlers[h].pc \in {"running", "killing"}
               => /\ handlers'[h].launches = handlers[h].launches
                  /\ handlers'[h].url = handlers[h].url]_vars

\* the answer after three rounds on one Chrome, killed once
C23_Witness ==
  /\ handlers[1].pc = "responded"
  /\ handlers[1].resp.status = 200
  /\ handlers[1].i = 3
  /\ handlers[1].launches = 1
  /\ handlers[1].kills = 1

\* ------------------------------------------------------------------------
\* Requests of a batch (Spec)
\* ------------------------------------------------------------------------

\* C24: a batch has issued one request for every settled url and one for
\* the url it waits for, and ends with as many requests as validated urls;
\* every request is for the entry after the one of the request before it,
\* whether that one succeeded or failed
C24_NoRetry ==
  /\ [](run.pc \in {"fetching", "done"}
          => /\ Len(IssuedByRun)
                  = Len(run.settled) + (IF run.pc = "fetching" THEN 1 ELSE 0)
             /\ run.pc = "done" => Len(IssuedByRun) = Len(run.validUrls))
  /\ [][requests' # requests
          => /\ Len(requests') = Len(requests) + 1
             /\ SubSeq(requests', 1, Len(requests)) = requests
             /\ run'.pc = "fetching"
             /\ requests'[Len(requests')] = run'.validUrls[run'.i + 1]
             /\ run.pc = "fetching"
                  => /\ run'.i = run.i + 1
                     /\ run'.validUrls = run.validUrls]_vars

\* a batch of three urls is over: the fetch of the first was rejected, the
\* second was refused by the endpoint, and three requests were issued
C24_Witness ==
  /\ run.pc = "done"
  /\ Len(run.validUrls) = 3
  /\ run.settled[1] = "rejected"
  /\ run.settled[2] = "http400"
  /\ Len(IssuedByRun) = 3

\* the number a raw field stands for: its value, 0 when it was omitted
RawOrZero(x) == IF x.def THEN x.n ELSE 0

\* C25: the metric made of a GTM item has the item's total as totalCpuTime,
\* its scripting as scriptEvaluation and its scriptParseCompile as
\* scriptParseTime, with 0 for a field the report omitted
C25_FieldsCopiedOrZero ==
  (extracted.done /\ ~extracted.threw) =>
    /\ Len(extracted.gtmMetrics) = Len(GtmItemsOf(lhrIn.items))
    /\ \A k \in 1..Len(extracted.gtmMetrics) :
         LET m == extracted.gtmMetrics[k]
             item == GtmItemsOf(lhrIn.items)[k]
         IN /\ m.totalCpuTime = RawOrZero(item.total)
            /\ m.scriptEvaluation = RawOrZero(item.scripting)
            /\ m.scriptParseTime = RawOrZero(item.scriptParseCompile)
            /\ ~item.total.def => m.totalCpuTime = 0
            /\ ~item.scripting.def => m.scriptEvaluation = 0
            /\ ~item.scriptParseCompile.def => m.scriptParseTime = 0

\* a report with a GTM item that has its three timings and one that has none
C25_Witness ==
  /\ extracted.done
  /\ Len(lhrIn.items) = 2
  /\ Len(extracted.gtmMetrics) = 2
  /\ lhrIn.items[1].total = Num(100)
  /\ lhrIn.items[2].total = Undef
  /\ extracted.gtmMetrics[1].scriptEvaluation = 60
  /\ extracted.gtmMetrics[1].scriptParseTime = 30
  /\ extracted.gtmMetrics[2].totalCpuTime = 0

\* ------------------------------------------------------------------------
\* A container id twice in one report (SpecAudit)
\* ------------------------------------------------------------------------

\* the metrics of a container id in one run: how many, and the sum of a field
RECURSIVE CountIn(_, _)
CountIn(ms, id) ==
  IF ms = <<>> THEN 0
  ELSE (IF Head(ms).containerId = id THEN 1 ELSE 0) + CountIn(Tail(ms), id)

RECURSIVE SumIn(_, _, _)
SumIn(ms, id, f) ==
  IF ms = <<>> THEN 0
  ELSE (IF Head(ms).containerId = id THEN Head(ms)[f] ELSE 0)
       + SumIn(Tail(ms), id, f)

RECURSIVE CountInRuns(_, _)
CountInRuns(runs, id) ==
  IF runs = <<>> THEN 0 ELSE CountIn(Head(runs), id) + CountInRuns(Tail(runs), id)

RECURSIVE SumInRuns(_, _, _)
SumInRuns(runs, id, f) ==
  IF runs = <<>> THEN 0
  ELSE SumIn(Head(runs), id, f) + SumInRuns(Tail(runs), id, f)

\* C26: a container id that extractMetrics returned twice for one report has
\* one averaged metric, and each of its fields is the rounded mean over all
\* metrics of that id, the two of the one report counted as two samples
C26_DuplicatesMergedById ==
  \A h \in HandlerIds :
    Answered200(h) =>
      LET hr == handlers[h]
          out == hr.resp.body.gtmMetrics
      IN \A r \in 1..Len(hr.runs) : \A j \in 1..Len(hr.runs[r]) :
           LET id == hr.runs[r][j].containerId
           IN CountIn(hr.runs[r], id) >= 2 =>
                /\ Cardinality({k \in 1..Len(out) : out[k].containerId = id}) = 1
                /\ \A k \in 1..Len(out) : \A f \in MetricFields :
                     out[k].containerId = id =>
                       IsRoundedMean(out[k][f], SumInRuns(hr.runs, id, f),
                                     CountInRuns(hr.runs, id))

\* the first report had GTM-X twice, with 100 and 201 ms, the others once
\* with 100 ms: the four samples give 125 ms
C26_Witness ==
  /\ Answered200(1)
  /\ CountIn(handlers[1].runs[1], IdX) = 2
  /\ CountInRuns(handlers[1].runs, IdX) = 4
  /\ SumInRuns(handlers[1].runs, IdX, "totalCpuTime") = 501
  /\ Len(handlers[1].resp.body.gtmMetrics) = 1
  /\ handlers[1].resp.body.gtmMetrics[1].totalCpuTime = 125

\* ------------------------------------------------------------------------
\* SpecExport: exportToCSV applied to the results of a batch
\* ------------------------------------------------------------------------

\* results of a finished batch: answers of POST, which have at least one
\* container when they are successes, and results made by the catch block
ExportResults ==
  { Success(LineA, <<Metric(IdX, 100, 60, 7)>>),
    Success(LineB, <<Metric(IdX, 200, 160, 7), Metric(IdY, 300, 3, 0)>>),
    Success(LineC, <<Metric(IdAAA, 101, 61, 8), Metric(IdBBB, 0, 0, 0),
                     Metric(IdY, 9, 3, 1)>>),
    Failure(LineSpace, InvalidFormatMsg),
    Failure(LineA, "Failed to fetch"),
    Failure(LineC, NoContainerMsg) }

\* the Download CSV button is rendered with the results card, when there are
\* results
InitExport ==
  /\ HarnessIdle
  /\ handlers = [h \in HandlerIds |-> HandlerIdle]
  /\ requests = <<>>
  /\ faults = 0
  /\ urls = <<>>
  /\ isAuditing = FALSE
  /\ progress = [num |-> 0, den |-> 1]
  /\ currentUrl = <<>>
  /\ currentIndex = 0
  /\ totalUrls = 0
  /\ estimatedTimeRemaining = 0
  /\ results \in UNION { [1..n -> ExportResults] : n \in 1..MaxResults }
  /\ summary = calculateSummary(results)
  /\ error = ""
  /\ run = RunIdle

\* exportToCSV
ExportToCSV ==
  /\ ~csv.written
  /\ Len(results) > 0
  /\ csv' = [written |-> TRUE, headers |-> CsvHeaders, rows |-> csvRows(results)]
  /\ UNCHANGED <<lhrIn, extracted, badge, rawRuns, serverVars, clientVars>>

NextExport == ExportToCSV

SpecExport == InitExport /\ [][NextExport]_vars

\* the rows a result must have: its containers if it is a success, one if it
\* is a failure
RowsDue(r) == IF r.status = "success" THEN Len(r.gtmMetrics) ELSE 1

RECURSIVE RowsDueUpTo(_, _)
RowsDueUpTo(rs, k) == IF k = 0 THEN 0 ELSE RowsDueUpTo(rs, k - 1) + RowsDue(rs[k])

\* C27: the file has the header and then, result after result, one row for
\* every container of a success, with the url of the result, the id and the
\* three timings of the container, and one row for a failure, with the url,
\* no timing and the error message
C27_CsvRowsPerContainerOrFailure ==
  csv.written =>
    /\ csv.headers = CsvHeaders
    /\ Len(csv.rows) = RowsDueUpTo(results, Len(results))
    /\ \A k \in 1..Len(results) :
         LET r == results[k]
             first == RowsDueUpTo(results, k - 1)
         IN \A j \in 1..RowsDue(r) :
              LET row == csv.rows[first + j]
              IN /\ row.url = Quoted(r.url)
                 /\ row.status = r.status
                 /\ r.status = "success" =>
                      /\ row.containerId = r.gtmMetrics[j].containerId
                      /\ row.totalCpuTime = NumberCell(r.gtmMetrics[j].totalCpuTime)
                      /\ row.scriptEvaluation = NumberCell(r.gtmMetrics[j].scriptEvaluation)
                      /\ row.scriptParseTime = NumberCell(r.gtmMetrics[j].scriptParseTime)
                 /\ r.status = "error" =>
                      /\ ~row.totalCpuTime.isNumber
                      /\ ~row.scriptEvaluation.isNumber
                      /\ ~row.scriptParseTime.isNumber
                      /\ row.error = Quoted(r.error.msg)
                      /\ r.error.msg # ""

\* the file of a success with two containers, a failure and a success with
\* three containers: six rows
C27_Witness ==
  /\ csv.written
  /\ Len(results) = 3
  /\ Len(results[1].gtmMetrics) = 2
  /\ results[2].status = "error"
  /\ Len(results[3].gtmMetrics) = 3
  /\ Len(csv.rows) = 6
  /\ csv.rows[1].url = csv.rows[2].url

\* ------------------------------------------------------------------------
\* The container ids of an answer (SpecAudit)
\* ------------------------------------------------------------------------

\* C28: the metrics of a successful answer have no container id twice, their
\* ids are the ids extracted in the three rounds taken together, and there
\* is at least one
C28_OneEntryPerSeenId ==
  \A h \in HandlerIds :
    Answered200(h) =>
      LET out == handlers[h].resp.body.gtmMetrics
      IN /\ out # <<>>
         /\ \A j, k \in 1..Len(out) :
              out[j].containerId = out[k].containerId => j = k
         /\ { out[k].containerId : k \in 1..Len(out) }
              = UNION { { handlers[h].runs[r][j].containerId :
                            j \in 1..Len(handlers[h].runs[r]) } :
                        r \in 1..Len(handlers[h].runs) }

\* GTM-X came twice in one round and GTM-Y9 in another round only: the
\* answer has the two ids once each
C28_Witness ==
  /\ Answered200(1)
  /\ CountIn(handlers[1].runs[1], IdX) = 2
  /\ CountIn(handlers[1].runs[2], IdX) = 0
  /\ CountIn(handlers[1].runs[2], IdY) = 1
  /\ Len(handlers[1].resp.body.gtmMetrics) = 2

\* ------------------------------------------------------------------------
\* Results and summary on display (Spec)
\* ------------------------------------------------------------------------

\* C29: while a batch runs there are no results and no summary on display;
\* a summary on display is the summary of the results on display; results
\* and summary are emptied only together
C29_SummaryOfDisplayedResults ==
  /\ [](/\ isAuditing => (results = <<>> /\ summary.isNull)
        /\ ~summary.isNull =>
             /\ summary = calculateSummary(results)
             /\ summary.totalUrls = Len(results)
             /\ results # <<>>
        /\ summary.isNull => results = <<>>)
  /\ [][/\ (results # <<>> /\ results' = <<>>) => summary'.isNull
        /\ (~summary.isNull /\ summary'.isNull) => results' = <<>>
        /\ results' # results => summary' # summary]_vars

\* the results of a batch of three urls and their summary
C29_Witness ==
  /\ ~isAuditing
  /\ Len(results) = 3
  /\ summary.totalUrls = 3
  /\ summary.successfulAudits = 2
  /\ summary.totalContainers = 2

\* ------------------------------------------------------------------------
\* startAudit without a valid url (Spec)
\* ------------------------------------------------------------------------

\* no line of the textarea passes the pre-filter
NoLineKept == \A k \in 1..Len(urlListOf(urls)) : ~StartsWithHttp(urlListOf(urls)[k])

\* C30: a click on the start button while no line of the text passes the
\* pre-filter (the text and the handlers stay as they are) sets the error
\* message and nothing else: no request is issued, isAuditing stays false,
\* results, summary and progress stay as the earlier batch left them
C30_NoValidUrlOnlySetsError ==
  [][(/\ ~isAuditing
      /\ trim(urls) # <<>>
      /\ NoLineKept
      /\ urls' = urls
      /\ handlers' = handlers)
       => /\ error' = NoValidUrlMsg
          /\ requests' = requests
          /\ isAuditing' = FALSE
          /\ results' = results
          /\ summary' = summary
          /\ progress' = progress
          /\ totalUrls' = totalUrls
          /\ currentIndex' = currentIndex
          /\ run' = run]_vars

\* after a batch, a text without a valid line was entered and the start
\* button was clicked: the message is shown over the results of the batch
C30_Witness ==
  /\ error = NoValidUrlMsg
  /\ urls = TextNoneValid
  /\ ~isAuditing
  /\ results # <<>>
  /\ ~summary.isNull
  /\ progress.num = progress.den

====
